---------------------------- MODULE Spec2Model ----------------------------
(***************************************************************************)
(* obspy.sac.core: isSAC, readSAC and writeSAC over a file system, with    *)
(* the header codec (obspy.sac.sacio.ReadSac) and the time type            *)
(* (obspy.core.UTCDateTime) they call.                                      *)
(*                                                                         *)
(* Representation.  A path or a header string is a sequence of one-letter  *)
(* strings.  A float is an integer: a sample and a scale are whole         *)
(* numbers, the offset b is a whole number of microseconds.  A time is     *)
(* [day, sec, us]: days since 1970-01-01, second of the day, microsecond   *)
(* of the second.  An optional value is a sequence of length 0 or 1.       *)
(***************************************************************************)
EXTENDS Integers, Sequences, FiniteSets, TLC

VARIABLES
    fs,       \* the file system: path |-> file, over the paths that exist
    written,  \* history: path |-> the trace writeSAC last wrote there
    ret,      \* the outcome of the last call
    handles,  \* file handles opened by isSAC and not closed
    input,    \* the trace the caller built
    names     \* a writeSAC call's file names, one more trace at a time

vars == <<fs, written, ret, handles, input, names>>

----------------------------------------------------------------------------
(* Bounds *)

MaxStream == 2      \* traces in one stream handed to writeSAC
MaxNpts == 2        \* samples in a trace or a valid foreign file
MaxLeaks == 1       \* unclosed handles before the collector must run
MaxTraces == 101    \* traces whose file names are computed

(* Program constants *)

HeaderSize == 632
Undefined == -12345
BeginTime == 9
OriginTime == 11

NptsOffset == 4 * 70 + 4 * 9

----------------------------------------------------------------------------
(* Generic helpers *)

Min(a, b) == IF a < b THEN a ELSE b
Max(a, b) == IF a > b THEN a ELSE b

Reverse(s) == [i \in 1..Len(s) |-> s[Len(s) + 1 - i]]

Opt(s) == s[1]
Has(f, k) == k \in DOMAIN f

----------------------------------------------------------------------------
(* struct.pack / struct.unpack of a signed 32-bit integer *)

Signed8(b) == IF b >= 128 THEN b - 256 ELSE b

UnpackLE(data) ==
    data[1] + 256 * data[2] + 65536 * data[3] + 16777216 * Signed8(data[4])

UnpackBE(data) == UnpackLE(Reverse(data))

PackLE(v) ==
    <<v % 256, (v \div 256) % 256, (v \div 65536) % 256,
      (v \div 16777216) % 256>>

PackBE(v) == Reverse(PackLE(v))

Pack(order, v) == IF order = "<" THEN PackLE(v) ELSE PackBE(v)
Unpack(order, data) == IF order = "<" THEN UnpackLE(data) ELSE UnpackBE(data)

----------------------------------------------------------------------------
(* Files.  A file is [size, npts4, hdr, seis]: its size in bytes, the      *)
(* bytes at offsets 316..319 (as many of them as the size leaves), the     *)
(* other header fields decoded in the file's byte order, and its samples.  *)

\* f.seek(316); f.read(4): the bytes the file has from offset 316 on, at most 4
SeekRead4(file) ==
    SubSeq(file.npts4, 1, Min(4, Max(0, file.size - NptsOffset)))

\* sizecheck = st_size - (632 + 4 * npts); sizecheck != 0.  Python integers
\* are unbounded; the test is written with a division so that a 32-bit
\* evaluation of 4 * npts cannot overflow.
\* Faulty variant: sizecheck > 0, so that a file shorter than its npts
\* declares passes.
SizeMismatch_OnlyLonger(st_size, npts) ==
    \/ (st_size - HeaderSize) \div 4 > npts
    \/ (st_size - HeaderSize) \div 4 = npts /\ (st_size - HeaderSize) % 4 # 0

SizeMismatch(st_size, npts) ==
    \/ (st_size - HeaderSize) % 4 # 0
    \/ (st_size - HeaderSize) \div 4 # npts

\* isSAC (lines 46-74).  fault names the I/O call the environment fails, or
\* "none".  The outcome is [value, exc, opened, closed]: the value returned,
\* the exception that leaves the call ("" for none), whether open()
\* succeeded and whether f.close() ran.
isSAC(fsys, filename, fault) ==
    IF ~Has(fsys, filename) \/ fault = "open"
    THEN [value |-> FALSE, exc |-> "", opened |-> FALSE, closed |-> FALSE]
    ELSE IF fault \in {"seek", "read"}
    THEN [value |-> FALSE, exc |-> "", opened |-> TRUE, closed |-> FALSE]
    ELSE
    LET data == SeekRead4(fsys[filename])
        st_size == fsys[filename].size
    IN  IF Len(data) # 4      \* struct.error, caught by the bare except
        THEN [value |-> FALSE, exc |-> "", opened |-> TRUE, closed |-> TRUE]
        ELSE IF fault = "stat"  \* os.stat is outside the try
        THEN [value |-> FALSE, exc |-> "OSError", opened |-> TRUE,
              closed |-> TRUE]
        ELSE IF SizeMismatch(st_size, UnpackLE(data))
                /\ SizeMismatch(st_size, UnpackBE(data))
        THEN [value |-> FALSE, exc |-> "", opened |-> TRUE, closed |-> TRUE]
        ELSE [value |-> TRUE, exc |-> "", opened |-> TRUE, closed |-> TRUE]

----------------------------------------------------------------------------
(* UTCDateTime: [day, sec, us] *)

IsLeap(y) == (y % 4 = 0 /\ y % 100 # 0) \/ y % 400 = 0
DaysInYear(y) == IF IsLeap(y) THEN 366 ELSE 365

RECURSIVE YearJday(_, _)
\* the year and the day of the year (1..366) of day d counted from 1 Jan of y
YearJday(y, d) ==
    IF d < 0 THEN YearJday(y - 1, d + DaysInYear(y - 1))
    ELSE IF d >= DaysInYear(y) THEN YearJday(y + 1, d - DaysInYear(y))
    ELSE [year |-> y, jday |-> d + 1]

RECURSIVE DaysBeforeYear(_)
\* days from 1970-01-01 to 1 Jan of y
DaysBeforeYear(y) ==
    IF y = 1970 THEN 0
    ELSE IF y > 1970 THEN DaysBeforeYear(y - 1) + DaysInYear(y - 1)
    ELSE DaysBeforeYear(y + 1) - DaysInYear(y)

Year(t) == YearJday(1970, t.day).year
Julday(t) == YearJday(1970, t.day).jday
Hour(t) == t.sec \div 3600
Minute(t) == (t.sec % 3600) \div 60
Second(t) == t.sec % 60
Microsecond(t) == t.us

\* t + d seconds, d in microseconds
AddMicros(t, d) ==
    LET u == t.us + d
        s == t.sec + (u \div 1000000)
    IN  [day |-> t.day + (s \div 86400), sec |-> s % 86400,
         us |-> u % 1000000]

\* UTCDateTime(year=, julday=, hour=, minute=, second=, microsecond=)
MakeTime(year, julday, hour, minute, second, microsecond) ==
    AddMicros([day |-> DaysBeforeYear(year) + julday - 1,
               sec |-> hour * 3600 + minute * 60 + second, us |-> 0],
              microsecond)

\* start.strftime("%j"): the day of the year as three decimal digits
Digit(n) == <<"0", "1", "2", "3", "4", "5", "6", "7", "8", "9">>[n + 1]
DigitValue(c) == CHOOSE n \in 0..9 : Digit(n) = c
StrftimeJ(t) ==
    <<Digit(Julday(t) \div 100), Digit((Julday(t) \div 10) % 10),
      Digit(Julday(t) % 10)>>

RECURSIVE ParseInt(_)
\* int("005")
ParseInt(s) ==
    IF s = <<>> THEN 0
    ELSE 10 * ParseInt(SubSeq(s, 1, Len(s) - 1)) + DigitValue(s[Len(s)])

\* t cut to whole milliseconds
TruncMs(t) == [t EXCEPT !.us = 1000 * (t.us \div 1000)]

----------------------------------------------------------------------------
(* The header fields of the model: four of convert_dict's seven entries    *)
(* and ten of sac_extra's names.                                           *)

\* convert_dict: <<SAC header field, trace attribute>>
convert_dict ==
    << <<"npts", "npts">>, <<"delta", "delta">>, <<"kstnm", "station">>,
       <<"scale", "calib">> >>

sac_extra ==
    <<"depmin", "b", "nzyear", "nzjday", "nzhour", "nzmin", "nzsec",
      "nzmsec", "iztype", "kevnm">>

StringFields == {"kstnm", "kevnm"}
HeaderFields ==
    {convert_dict[i][1] : i \in 1..Len(convert_dict)}
        \cup {sac_extra[i] : i \in 1..Len(sac_extra)}

\* A value held by a trace attribute: a string, or for a numeric attribute
\* [ok, v], where ok = FALSE stands for a value that is no number (text).
Num(n) == [ok |-> TRUE, v |-> n]
NotANumber == [ok |-> FALSE, v |-> 0]

Width(key) == IF key = "kevnm" THEN 16 ELSE 8

RECURSIVE Spaces(_)
Spaces(n) == IF n <= 0 THEN <<>> ELSE <<" ">> \o Spaces(n - 1)

\* '%-8s' % value, cut to the field's width
Pad(str, w) == SubSeq(str \o Spaces(w - Len(str)), 1, w)

RECURSIVE Strip(_)
\* value.strip()
Strip(str) ==
    IF str = <<>> THEN <<>>
    ELSE IF str[1] = " " THEN Strip(Tail(str))
    ELSE IF str[Len(str)] = " " THEN Strip(SubSeq(str, 1, Len(str) - 1))
    ELSE str

UndefinedStr == <<"-", "1", "2", "3", "4", "5">>

\* ReadSac.InitArrays: every field holds its sentinel
InitArrays ==
    [k \in HeaderFields |->
        IF k \in StringFields THEN Pad(UndefinedStr, Width(k)) ELSE Undefined]

\* ReadSac.SetHvalue: [exc, hdr].  A numeric field takes float(value) or
\* int(value), which raises on a value that is no number.
SetHvalue(hdr, key, value) ==
    IF key \in StringFields
    THEN [exc |-> "", hdr |-> [hdr EXCEPT ![key] = Pad(value, Width(key))]]
    ELSE IF value.ok
    THEN [exc |-> "", hdr |-> [hdr EXCEPT ![key] = value.v]]
    ELSE [exc |-> "ValueError", hdr |-> hdr]

\* ReadSac.GetHvalue
GetHvalue(hdr, key) == hdr[key]

\* ReadSac.fromarray(data, begin=0.0, delta=delta) after InitArrays
fromarray(data, begin, delta) ==
    [InitArrays EXCEPT !["npts"] = Len(data), !["delta"] = delta,
                       !["b"] = begin]

\* ReadSac.WriteSacBinary: the header, little-endian, then the samples
WriteSacBinary(hdr, seis) ==
    [size |-> HeaderSize + 4 * Len(seis),
     npts4 |-> PackLE(hdr["npts"]),
     hdr |-> [k \in HeaderFields \ {"npts"} |-> hdr[k]],
     seis |-> seis]

\* The byte order ReadSac reads a file in: as isSAC probes it
ByteOrder(file) ==
    LET data == SeekRead4(file)
    IN  IF Len(data) # 4 THEN ""
        ELSE IF ~SizeMismatch(file.size, UnpackLE(data)) THEN "<"
        ELSE IF ~SizeMismatch(file.size, UnpackBE(data)) THEN ">"
        ELSE ""

\* ReadSac.ReadSacFile / ReadSacHeader: [exc, hdr, seis, starttime]
ReadSac(fsys, filename, headonly) ==
    LET none == [exc |-> "", hdr |-> InitArrays, seis |-> <<>>,
                 starttime |-> [day |-> 0, sec |-> 0, us |-> 0]]
    IN  IF ~Has(fsys, filename) THEN [none EXCEPT !.exc = "IOError"]
        ELSE
        LET file == fsys[filename]
            order == ByteOrder(file)
        IN  IF order = "" \/ file.size < HeaderSize
            THEN [none EXCEPT !.exc = "FormatError"]
            ELSE
            LET hdr == [k \in HeaderFields |->
                          IF k = "npts" THEN Unpack(order, file.npts4)
                          ELSE file.hdr[k]]
            IN  [exc |-> "",
                 hdr |-> hdr,
                 seis |-> IF headonly THEN <<>> ELSE file.seis,
                 starttime |->
                     MakeTime(hdr["nzyear"], hdr["nzjday"], hdr["nzhour"],
                              hdr["nzmin"], hdr["nzsec"],
                              hdr["nzmsec"] * 1000)]

----------------------------------------------------------------------------
(* Traces.  A trace is [starttime, stats, sac, data]: stats maps the       *)
(* common attributes it has to their values, sac is its ExtraFields (a     *)
(* sequence of length 0 when the trace has none).                          *)

TraceAttrs == {convert_dict[i][2] : i \in 1..Len(convert_dict)}
FieldOf(attr) ==
    convert_dict[CHOOSE i \in 1..Len(convert_dict) :
                     convert_dict[i][2] = attr][1]

----------------------------------------------------------------------------
(* readSAC *)

\* lines 109-113: a string is stripped and the sentinel text becomes ''
Converted(hdr, i) ==
    LET value == GetHvalue(hdr, i)
    IN  IF i \in StringFields
        THEN IF Strip(value) = UndefinedStr THEN <<>> ELSE Strip(value)
        ELSE Num(value)

\* Faulty variant: the sentinel scale is passed on.
Calib_Verbatim(calib) == calib

\* lines 115-116
Calib(calib) == IF calib = Num(Undefined) THEN Num(1) ELSE calib

\* lines 106-119: the header dictionary without its start time
Header(hdr) ==
    [stats |-> [j \in TraceAttrs |->
                   IF j = "calib" THEN Calib(Converted(hdr, FieldOf(j)))
                   ELSE Converted(hdr, FieldOf(j))],
     sac |-> [i \in {sac_extra[n] : n \in 1..Len(sac_extra)} |->
                 IF i \in StringFields THEN GetHvalue(hdr, i)
                 ELSE Num(GetHvalue(hdr, i))]]

\* Faulty variant: an unknown iztype is read as the begin time.
StartTime_AnyIztype(starttime, iztype, b) ==
    IF iztype = OriginTime
    THEN [exc |-> "", starttime |-> AddMicros(starttime, b)]
    ELSE [exc |-> "", starttime |-> starttime]

\* lines 121-128: [exc, starttime]
StartTime(starttime, iztype, b) ==
    IF iztype = OriginTime
    THEN [exc |-> "", starttime |-> AddMicros(starttime, b)]
    ELSE IF iztype \in {BeginTime, Undefined}
    THEN [exc |-> "", starttime |-> starttime]
    ELSE [exc |-> "NotImplementedError", starttime |-> starttime]

\* readSAC (lines 77-133): [exc, trace], trace of length 1 on success
readSAC(fsys, filename, headonly) ==
    LET t == ReadSac(fsys, filename, headonly)
    IN  IF t.exc # "" THEN [exc |-> t.exc, trace |-> <<>>]
        ELSE
        LET header == Header(t.hdr)
            st == StartTime(t.starttime, header.sac["iztype"].v,
                            header.sac["b"].v)
        IN  IF st.exc # "" THEN [exc |-> st.exc, trace |-> <<>>]
            ELSE [exc |-> "",
                  trace |-> <<[starttime |-> st.starttime,
                               stats |-> header.stats,
                               sac |-> <<header.sac>>,
                               data |-> t.seis]>>]

----------------------------------------------------------------------------
(* writeSAC *)

\* lines 162-165 and 168-171: try: t.SetHvalue(key, attrs[attr]);
\* except: pass.  A missing attribute and a failing SetHvalue both leave
\* the header as it was.
TrySet(hdr, key, attrs, attr) ==
    IF attr \notin DOMAIN attrs THEN hdr
    ELSE SetHvalue(hdr, key, attrs[attr]).hdr

RECURSIVE OverlayCommon(_, _, _)
\* lines 161-165, from convert_dict's entry n on
OverlayCommon(hdr, trace, n) ==
    IF n > Len(convert_dict) THEN hdr
    ELSE OverlayCommon(
             TrySet(hdr, convert_dict[n][1], trace.stats, convert_dict[n][2]),
             trace, n + 1)

RECURSIVE OverlayExtra(_, _, _)
\* lines 167-171, from sac_extra's entry n on; a trace without stats.sac
\* raises on each access and every name is skipped
OverlayExtra(hdr, trace, n) ==
    IF n > Len(sac_extra) \/ trace.sac = <<>> THEN hdr
    ELSE OverlayExtra(TrySet(hdr, sac_extra[n], Opt(trace.sac), sac_extra[n]),
                      trace, n + 1)

\* lines 174-181: [exc, start], the reference time to store
ReferenceTime(trace) ==
    LET start == trace.starttime
        asis == [exc |-> "", start |-> start]
    IN  IF trace.sac = <<>> THEN asis                    \* KeyError
        ELSE IF ~Has(Opt(trace.sac), "iztype") THEN asis \* KeyError
        ELSE IF Opt(trace.sac)["iztype"] = Num(OriginTime)
        THEN IF ~Has(Opt(trace.sac), "b") THEN asis      \* KeyError
             ELSE IF ~Opt(trace.sac)["b"].ok             \* float() raises
             THEN [exc |-> "ValueError", start |-> start]
             ELSE [exc |-> "",
                   start |-> AddMicros(start, 0 - Opt(trace.sac)["b"].v)]
        ELSE asis

\* lines 183-188: the reference time's fields, each through SetHvalue
SetTime(hdr, start) ==
    LET h1 == SetHvalue(hdr, "nzyear", Num(Year(start))).hdr
        h2 == SetHvalue(h1, "nzjday", Num(ParseInt(StrftimeJ(start)))).hdr
        h3 == SetHvalue(h2, "nzhour", Num(Hour(start))).hdr
        h4 == SetHvalue(h3, "nzmin", Num(Minute(start))).hdr
        h5 == SetHvalue(h4, "nzsec", Num(Second(start))).hdr
    IN  SetHvalue(h5, "nzmsec", Num(Microsecond(start) \div 1000)).hdr

\* lines 155-188 for one trace: [exc, file]
SacFile(trace) ==
    LET t0 == fromarray(trace.data, 0, trace.stats["delta"].v)
        t1 == OverlayCommon(t0, trace, 1)
        t2 == OverlayExtra(t1, trace, 1)
        ref == ReferenceTime(trace)
    IN  IF ref.exc # ""
        THEN [exc |-> ref.exc, file |-> WriteSacBinary(t2, trace.data)]
        ELSE [exc |-> "",
              file |-> WriteSacBinary(SetTime(t2, ref.start), trace.data)]

\* os.path.splitext(filename) (line 153): <<base, ext>>.  The extension
\* starts at the last dot of the last path component, unless only dots
\* precede it there.
LastIndex(p, c) ==
    LET S == {i \in 1..Len(p) : p[i] = c}
    IN  IF S = {} THEN 0 ELSE CHOOSE i \in S : \A j \in S : j <= i

splitext(p) ==
    LET sep == LastIndex(p, "/")
        dot == LastIndex(p, ".")
    IN  IF dot > sep /\ \E k \in (sep + 1)..(dot - 1) : p[k] # "."
        THEN <<SubSeq(p, 1, dot - 1), SubSeq(p, dot, Len(p))>>
        ELSE <<p, <<>>>>

RECURSIVE Decimal(_)
Decimal(n) ==
    IF n < 10 THEN <<Digit(n)>>
    ELSE Decimal(n \div 10) \o <<Digit(n % 10)>>

\* "%02d" % i: at least two digits, zero-padded
Format02d(i) == IF i < 10 THEN <<"0">> \o Decimal(i) ELSE Decimal(i)

\* Faulty variant: the base is taken from the name the previous trace
\* was given.
TargetName_FromLast(base, ext, i, filename) ==
    IF i # 0 THEN splitext(filename)[1] \o Format02d(i) \o ext ELSE filename

\* lines 189-190: the name trace i is written to; filename is the name the
\* previous trace was written to (the requested one for trace 0)
TargetName(base, ext, i, filename) ==
    IF i # 0 THEN base \o Format02d(i) \o ext ELSE filename

Put(fsys, name, file) ==
    [q \in DOMAIN fsys \cup {name} |-> IF q = name THEN file ELSE fsys[q]]

RECURSIVE WriteLoop(_, _, _, _, _, _)
\* lines 154-192 from trace i on.  st is [fs, written, exc, paths].
WriteLoop(st, stream, i, base, ext, filename) ==
    IF i >= Len(stream) THEN st
    ELSE
    LET trace == stream[i + 1]
        sac == SacFile(trace)
        name == TargetName(base, ext, i, filename)
    IN  IF sac.exc # "" THEN [st EXCEPT !.exc = sac.exc]
        ELSE WriteLoop([fs |-> Put(st.fs, name, sac.file),
                        written |-> Put(st.written, name, trace),
                        exc |-> "",
                        paths |-> Append(st.paths, name)],
                       stream, i + 1, base, ext, name)

\* writeSAC (lines 136-192): [fs, written, exc, paths]
writeSAC(fsys, wr, stream, filename) ==
    WriteLoop([fs |-> fsys, written |-> wr, exc |-> "", paths |-> <<>>],
              stream, 0, splitext(filename)[1], splitext(filename)[2],
              filename)

----------------------------------------------------------------------------
(* Inputs *)

Merge(f, g) ==
    [k \in DOMAIN f \cup DOMAIN g |-> IF k \in DOMAIN g THEN g[k] ELSE f[k]]

Only(k, v) == [x \in {k} |-> v]
Nothing == [x \in {} |-> 0]

Sample(i) == 2 * i + 5
Data(n) == [i \in 1..n |-> Sample(i)]

StartTimes ==
    { [day |-> 0, sec |-> 10, us |-> 500],            \* 1970-01-01
      [day |-> 1095, sec |-> 86399, us |-> 999999] }  \* 1972-12-31

Sta == <<"S", "T", "A">>
Ev == <<"E", "V">>

\* ExtraFields a caller may set besides iztype and b: none, a set left
\* over from an earlier read (its reference time stale), a depmin of text
OtherExtras ==
    { Nothing,
      [depmin |-> Num(5), kevnm |-> Ev, nzyear |-> Num(1999),
       nzjday |-> Num(1), nzhour |-> Num(2), nzmin |-> Num(3),
       nzsec |-> Num(4), nzmsec |-> Num(5)],
      [depmin |-> NotANumber] }

IztypeChoices ==
    {Nothing} \cup {Only("iztype", Num(z)) :
                       z \in {BeginTime, Undefined, OriginTime, 3}}
BChoices == {Nothing} \cup {Only("b", Num(d)) : d \in {700, 2000000}}

\* No ExtraFields; iztype and b alone, each set or not; the other fields
\* with a begin-time and an origin-time reference
SacChoices ==
    {<<>>}
    \cup {<<Merge(z, b)>> : z \in IztypeChoices, b \in BChoices}
    \cup {<<Merge(o, z)>> :
             o \in OtherExtras \ {Nothing},
             z \in {Only("iztype", Num(BeginTime)),
                    [iztype |-> Num(OriginTime), b |-> Num(700)]}}

CallerTrace(t, c, x) ==
    [starttime |-> t,
     stats |-> Merge([npts |-> Num(MaxNpts), delta |-> Num(1),
                      station |-> Sta], c),
     sac |-> x,
     data |-> Data(MaxNpts)]

\* The traces a caller builds: sample_count is the number of samples
CallerTraces ==
    {CallerTrace(t, Only("calib", Num(2)), x) :
        t \in StartTimes, x \in SacChoices}
    \cup {CallerTrace(t, Nothing, <<>>) : t \in StartTimes}

RequestedName == <<"r", ".", "s">>
ForeignName == <<"f", ".", "s">>

NameInputs ==
    { <<"r", "u", "n", ".", "s", "a", "c">>,
      <<"r", "u", "n">>,
      <<".", "r", "c">>,
      <<"d", ".", "1", "/", "r", "0">> }

Faults == {"none", "open", "seek", "read", "stat"}

\* Foreign headers: every field set, or every field at its sentinel
ForeignHeaders ==
    { [InitArrays EXCEPT !["delta"] = 1, !["b"] = b, !["iztype"] = z] :
          b \in {0, 700}, z \in {BeginTime, Undefined, OriginTime, 3} }
    \cup
    { [InitArrays EXCEPT !["delta"] = 1, !["b"] = b, !["iztype"] = z,
                         !["scale"] = c, !["kstnm"] = Pad(Sta, Width("kstnm")),
                         !["depmin"] = 5,
                         !["kevnm"] = Pad(Ev, Width("kevnm"))] :
          b \in {0, 700}, z \in {BeginTime, OriginTime},
          c \in {2, 0, -12344} }

\* Size-consistent SAC files of either byte order
ValidFiles ==
    { [size |-> HeaderSize + 4 * n,
       npts4 |-> Pack(order, n),
       hdr |-> [k \in HeaderFields \ {"npts"} |->
                   SetTime(h, [day |-> 1095, sec |-> 86399, us |-> 999000])[k]],
       seis |-> Data(n)] :
        order \in {"<", ">"}, n \in 0..MaxNpts, h \in ForeignHeaders }

\* Other files: any size against any four bytes at offset 316
OtherFiles ==
    { [size |-> sz,
       npts4 |-> raw,
       hdr |-> [k \in HeaderFields \ {"npts"} |->
                   SetTime(InitArrays, [day |-> 59, sec |-> 3661, us |-> 0])[k]],
       seis |-> [i \in 1..Max(0, (sz - HeaderSize) \div 4) |-> 0]] :
        sz \in {0, 318, 320, 628, 632, 636},
        raw \in {PackLE(-78), PackBE(-78), PackLE(-1), PackLE(1), PackBE(1)} }

----------------------------------------------------------------------------
(* The state machine *)

Idle ==
    [op |-> "", path |-> <<>>, headonly |-> FALSE, fault |-> "",
     value |-> FALSE, exc |-> "", trace |-> <<>>, paths |-> <<>>,
     stream |-> <<>>]

NoNames == [filename |-> <<>>, last |-> <<>>, paths |-> <<>>]

\* A caller with a trace and an empty directory
Init ==
    /\ fs = Nothing
    /\ written = Nothing
    /\ ret = Idle
    /\ handles = 0
    /\ input \in {<<x>> : x \in CallerTraces}
    /\ names = NoNames

\* A directory other programs fill; the caller builds no trace
InitDetect ==
    /\ fs = Nothing
    /\ written = Nothing
    /\ ret = Idle
    /\ handles = 0
    /\ input = <<>>
    /\ names = NoNames

\* A writeSAC call about to name its files
InitNames ==
    /\ fs = Nothing
    /\ written = Nothing
    /\ ret = Idle
    /\ handles = 0
    /\ input = <<>>
    /\ names \in {[filename |-> f, last |-> f, paths |-> <<>>] :
                    f \in NameInputs}

\* The traces the caller holds: the one it built and the one last read
Held == {input[i] : i \in 1..Len(input)} \cup {ret.trace[i] : i \in 1..Len(ret.trace)}

Streams == UNION {[1..n -> Held] : n \in 1..MaxStream}

\* isSAC(filename).  A handle left unclosed is released when the runtime
\* finalizes the file object, which may be before the call returns or later.
Detect(filename, fault) ==
    LET r == isSAC(fs, filename, fault)
    IN  /\ ret' = [Idle EXCEPT !.op = "isSAC", !.path = filename,
                               !.fault = fault, !.value = r.value,
                               !.exc = r.exc]
        /\ \/ /\ r.opened /\ ~r.closed
              /\ handles < MaxLeaks
              /\ handles' = handles + 1
           \/ handles' = handles
        /\ UNCHANGED <<fs, written, input, names>>

\* the runtime finalizes the abandoned file objects
Collect ==
    /\ handles > 0
    /\ handles' = 0
    /\ UNCHANGED <<fs, written, ret, input, names>>

\* readSAC(filename, headonly)
Read(filename, headonly) ==
    LET r == readSAC(fs, filename, headonly)
    IN  /\ ret' = [Idle EXCEPT !.op = "read", !.path = filename,
                               !.headonly = headonly, !.exc = r.exc,
                               !.trace = r.trace]
        /\ UNCHANGED <<fs, written, handles, input, names>>

\* writeSAC(stream, filename)
Write(stream, filename) ==
    LET w == writeSAC(fs, written, stream, filename)
    IN  /\ fs' = w.fs
        /\ written' = w.written
        /\ ret' = [Idle EXCEPT !.op = "write", !.path = filename,
                               !.exc = w.exc, !.paths = w.paths,
                               !.stream = stream]
        /\ UNCHANGED <<handles, input, names>>

\* another program stores a file
PutFile(filename, file) ==
    /\ fs' = Put(fs, filename, file)
    /\ ret' = Idle
    /\ UNCHANGED <<written, handles, input, names>>

\* another program cuts the last byte off a size-consistent file's samples
Truncate(filename) ==
    /\ Has(fs, filename)
    /\ ByteOrder(fs[filename]) # ""
    /\ fs[filename].size > HeaderSize
    /\ fs' = [fs EXCEPT ![filename] =
                 [@ EXCEPT !.size = @ - 1,
                           !.seis = SubSeq(@, 1, Len(@) - 1)]]
    /\ ret' = Idle
    /\ UNCHANGED <<written, handles, input, names>>

\* One turn of writeSAC's loop (lines 154, 189-192), the traces' contents
\* left out: trace i = Len(paths) gets its name
NameTrace ==
    LET name == TargetName(splitext(names.filename)[1],
                           splitext(names.filename)[2], Len(names.paths),
                           names.last)
    IN  /\ Len(names.paths) < MaxTraces
        /\ names' = [names EXCEPT !.paths = Append(@, name), !.last = name]
    /\ UNCHANGED <<fs, written, ret, handles, input>>

Paths == DOMAIN fs \cup {RequestedName}

DetectFaultStep == \E p \in DOMAIN fs \cup {ForeignName}, x \in Faults : Detect(p, x)
ReadStep == \E p \in Paths, h \in BOOLEAN : Read(p, h)
ReadForeignStep == \E p \in DOMAIN fs \cup {ForeignName}, h \in BOOLEAN : Read(p, h)
WriteStep == \E st \in Streams : Write(st, RequestedName)
PutFileStep == \E file \in ValidFiles \cup OtherFiles : PutFile(ForeignName, file)
TruncateStep == \E p \in DOMAIN fs : Truncate(p)

Next == ReadStep \/ WriteStep
NextDetect ==
    DetectFaultStep \/ ReadForeignStep \/ PutFileStep \/ TruncateStep \/ Collect
NextNames == NameTrace

Spec == Init /\ [][Next]_vars
SpecDetect == InitDetect /\ [][NextDetect]_vars
SpecNames == InitNames /\ [][NextNames]_vars

----------------------------------------------------------------------------
(* Properties *)

\* the file the last call was made on
Target == fs[ret.path]
OnFile == ret.path \in DOMAIN fs

\* size = 632 + 4 * npts, without the product
SizeIs(size, npts) ==
    (size - 632) % 4 = 0 /\ (size - 632) \div 4 = npts

\* what is_sac is to return on a file, by the detector's contract
Detected(file) ==
    /\ file.size >= 320
    /\ \/ SizeIs(file.size, UnpackLE(file.npts4))
       \/ SizeIs(file.size, UnpackBE(file.npts4))

\* C1: is_sac returns true exactly when the file has at least 320 bytes and
\* its size is 632 + 4 * npts for the little- or the big-endian reading of
\* the bytes at 316; in every other case, a failing open, seek, read or
\* stat included, it returns false and raises nothing.
C1_IsSacTotal ==
    ret.op = "isSAC" =>
        /\ ret.exc = ""
        /\ ret.value = (OnFile /\ ret.fault = "none" /\ Detected(Target))

\* The same with no failure of stat: the part of C1 the code keeps.
IsSacValue ==
    ret.op = "isSAC" /\ ret.fault # "stat" =>
        /\ ret.exc = ""
        /\ ret.value = (OnFile /\ ret.fault = "none" /\ Detected(Target))

\* C9: when is_sac returns, the handle it opened is closed, on every exit
\* path; no sequence of calls leaves a handle open.
C9_HandleReleased == handles = 0

\* a size-consistent file of npts >= 1 samples with its last byte cut off
TruncatedValid(file) ==
    \E order \in {"<", ">"} :
        /\ Unpack(order, file.npts4) >= 1
        /\ SizeIs(file.size + 1, Unpack(order, file.npts4))

\* C5: on a valid SAC file of either byte order with one byte cut off its
\* samples, is_sac returns false and read fails with FormatError.
C5_TruncatedRejected ==
    OnFile /\ TruncatedValid(Target) =>
        /\ ret.op = "isSAC" /\ ret.fault = "none" =>
               ret.value = FALSE /\ ret.exc = ""
        /\ ret.op = "read" => ret.exc = "FormatError" /\ ret.trace = <<>>

C5_Witness ==
    /\ OnFile
    /\ ret.op = "read"
    /\ UnpackBE(Target.npts4) >= 1
    /\ SizeIs(Target.size + 1, UnpackBE(Target.npts4))
    /\ ret.exc = "FormatError"

\* a file whose header read decodes
Decodes(file) == Detected(file) /\ file.size >= 632

\* the reference time a header's nz fields hold
NzTime(hdr) ==
    AddMicros([day |-> DaysBeforeYear(hdr["nzyear"]) + hdr["nzjday"] - 1,
               sec |-> 3600 * hdr["nzhour"] + 60 * hdr["nzmin"]
                           + hdr["nzsec"],
               us |-> 0],
              1000 * hdr["nzmsec"])

\* C4: read, full or header-only, fails with the unsupported-time-reference
\* error and yields no trace when iztype is none of 9, 11 and -12345; for 9
\* and -12345 the start time is the reference time, for 11 it is the
\* reference time plus b.
C4_Iztype ==
    ret.op = "read" /\ OnFile /\ Decodes(Target) =>
        LET z == Target.hdr["iztype"]
        IN  /\ z \notin {9, 11, -12345} =>
                   ret.exc = "NotImplementedError" /\ ret.trace = <<>>
            /\ z \in {9, -12345} =>
                   /\ ret.exc = ""
                   /\ Len(ret.trace) = 1
                   /\ ret.trace[1].starttime = NzTime(Target.hdr)
            /\ z = 11 =>
                   /\ ret.exc = ""
                   /\ Len(ret.trace) = 1
                   /\ ret.trace[1].starttime
                          = AddMicros(NzTime(Target.hdr), Target.hdr["b"])

C4_Witness ==
    /\ ret.op = "read" /\ OnFile /\ Decodes(Target)
    /\ ret.headonly
    /\ Target.hdr["iztype"] = 3
    /\ ret.exc = "NotImplementedError"

\* C10: read yields calibration 1.0 for a scale of -12345.0 and the scale
\* itself otherwise; every ExtraFields value is the header's, sentinels
\* included.
C10_Calibration ==
    ret.op = "read" /\ ret.exc = "" =>
        /\ Target.hdr["scale"] = -12345 => ret.trace[1].stats["calib"] = Num(1)
        /\ Target.hdr["scale"] # -12345 =>
               ret.trace[1].stats["calib"] = Num(Target.hdr["scale"])
        /\ \A n \in 1..Len(sac_extra) :
               ret.trace[1].sac[1][sac_extra[n]]
                   = IF sac_extra[n] \in StringFields
                     THEN Target.hdr[sac_extra[n]]
                     ELSE Num(Target.hdr[sac_extra[n]])

C10_Witness ==
    /\ ret.op = "read" /\ ret.exc = ""
    /\ Target.hdr["scale"] = -12345
    /\ ret.trace[1].stats["calib"] = Num(1)
    /\ ret.trace[1].sac[1]["depmin"] = Num(-12345)
    /\ ret.trace[1].sac[1]["kevnm"] = Pad(UndefinedStr, 16)

----------------------------------------------------------------------------
(* Properties of writeSAC and of a write followed by a read *)

\* the trace the file just read was written from
Source == written[ret.path]
ReadBack == ret.op = "read" /\ ~ret.headonly /\ ret.path \in DOMAIN written

HasIztype(trace) == trace.sac # <<>> /\ Has(Opt(trace.sac), "iztype")
BeginReferenced(trace) ==
    HasIztype(trace) =>
        Opt(trace.sac)["iztype"] \in {Num(9), Num(-12345)}
OriginReferenced(trace) ==
    /\ HasIztype(trace)
    /\ Opt(trace.sac)["iztype"] = Num(11)
    /\ Has(Opt(trace.sac), "b")

SameSamplesAndStart ==
    /\ ret.exc = ""
    /\ Len(ret.trace) = 1
    /\ ret.trace[1].data = Source.data
    /\ ret.trace[1].starttime = TruncMs(Source.starttime)

\* C2: a trace whose iztype is 9, -12345 or absent, whatever its other
\* ExtraFields, written and read back has the same samples and its start
\* time cut to the millisecond.
C2_RoundTrip == ReadBack /\ BeginReferenced(Source) => SameSamplesAndStart

\* the trace's sample_count is the number of its samples
CountsSamples(trace) == trace.stats["npts"] = Num(Len(trace.data))

\* C2 for the traces whose sample_count is the number of their samples
RoundTripCounted ==
    ReadBack /\ BeginReferenced(Source) /\ CountsSamples(Source) =>
        SameSamplesAndStart

\* C3: a trace with iztype 11 and an offset b, written and read back, has
\* its start time cut to the millisecond.
C3_OriginRoundTrip ==
    ReadBack /\ OriginReferenced(Source) =>
        /\ ret.exc = ""
        /\ Len(ret.trace) = 1
        /\ ret.trace[1].starttime = TruncMs(Source.starttime)

\* C3 for the traces that count their samples and whose b is a whole
\* number of milliseconds
OriginRoundTripWholeMs ==
    /\ ReadBack /\ OriginReferenced(Source) /\ CountsSamples(Source)
    /\ Opt(Source.sac)["b"].v % 1000 = 0
    => /\ ret.exc = ""
       /\ Len(ret.trace) = 1
       /\ ret.trace[1].starttime = TruncMs(Source.starttime)

\* the trace holds a value its header field cannot take
HoldsUnsettable(trace) ==
    \/ \E a \in DOMAIN trace.stats \ {"station"} : ~trace.stats[a].ok
    \/ /\ trace.sac # <<>>
       /\ \E k \in DOMAIN Opt(trace.sac) \ StringFields : ~Opt(trace.sac)[k].ok

\* C7: the overlay skips a field the trace lacks, and an error raised by
\* setting a field the trace has leaves write as an error, no file
\* written for that trace.
C7_PresentErrorPropagates ==
    ret.op = "write" =>
        \A i \in 1..Len(ret.stream) :
            HoldsUnsettable(ret.stream[i]) =>
                ret.exc # "" /\ Len(ret.paths) < i

\* C8: every file write wrote declares in npts the samples that follow its
\* header: its size is 632 + 4 * npts and is_sac is true of it.
C8_WrittenSizeConsistent ==
    \A p \in DOMAIN written :
        /\ UnpackLE(fs[p].npts4) = Len(fs[p].seis)
        /\ SizeIs(fs[p].size, UnpackLE(fs[p].npts4))
        /\ isSAC(fs, p, "none").value

\* C8 for the traces that count their samples
WrittenCountedConsistent ==
    \A p \in DOMAIN written :
        CountsSamples(written[p]) =>
            /\ SizeIs(fs[p].size, UnpackLE(fs[p].npts4))
            /\ isSAC(fs, p, "none").value

----------------------------------------------------------------------------
(* Properties of the file names *)

NamedBase == splitext(names.filename)[1]
NamedExt == splitext(names.filename)[2]

\* i in decimal, two digits at least
TwoDigits(i) ==
    IF i < 10 THEN <<"0", Digit(i)>>
    ELSE IF i < 100 THEN <<Digit(i \div 10), Digit(i % 10)>>
    ELSE <<Digit(i \div 100), Digit((i \div 10) % 10), Digit(i % 10)>>

NamesFromBase ==
    \A i \in 1..Len(names.paths) :
        names.paths[i] = IF i = 1 THEN names.filename
                         ELSE NamedBase \o TwoDigits(i - 1) \o NamedExt

NamesDistinct ==
    \A i, j \in 1..Len(names.paths) :
        i # j => names.paths[i] # names.paths[j]

\* C6 as stated: trace 0 goes to the requested path and trace i >= 1 to
\* base + two-digit index + ext, from the requested base; the names are
\* pairwise distinct up to 100 traces and collide beyond.
C6_CollisionBeyond100 ==
    /\ NamesFromBase
    /\ Len(names.paths) <= 100 => NamesDistinct
    /\ Len(names.paths) > 100 => ~NamesDistinct

\* C6 as amended: the same names, the index in three digits from 100 on,
\* pairwise distinct for every number of traces.
C6_NamesDistinct == NamesFromBase /\ NamesDistinct

C6_Witness ==
    /\ Len(names.paths) > 100
    /\ names.filename = <<"r", "u", "n", ".", "s", "a", "c">>
    /\ names.paths[3] = <<"r", "u", "n", "0", "2", ".", "s", "a", "c">>

=============================================================================
